---- MODULE Spec2Model ----
(***************************************************************************)
(* CAM job pipeline of the furniture backend: the job repository           *)
(* (api/models.py CAMJob, Artifact), the Redis list queues (api/queues.py),*)
(* the submission endpoints (api/routers.py) and the worker loop           *)
(* (api/worker.py run_worker / process_job).                               *)
(***************************************************************************)
EXTENDS Integers, Sequences, FiniteSets, TLC

(* ---------------------------- bounds ---------------------------------- *)
MaxJobs == 2        \* job rows that submissions may create
MaxKeys == 1        \* distinct client-supplied idempotency keys
NumWorkers == 2     \* worker replicas
MaxRedeliver == 1   \* duplicate deliveries the broker may make (at-least-once)
MaxFaults == 4      \* transient failures the environment injects in all
MaxForeign == 1     \* payloads without job_id that other clients push

(* ------------------------- program constants -------------------------- *)
MAX_RETRIES == 3
DXF_QUEUE == "cam:dxf"
GCODE_QUEUE == "cam:gcode"
ZIP_QUEUE == "cam:zip"
DLQ_QUEUE == "cam:dlq"
\* the list create_drilling_job pushes to (imported by api/routers.py)
DRILLING_QUEUE == "cam:drilling"

Workers == 1..NumWorkers
JobIds == 1..MaxJobs
NoKey == 0                       \* idempotency_key = None
ClientKeys == 1..MaxKeys         \* keys a client may send

\* r.blpop([DXF_QUEUE, GCODE_QUEUE, ZIP_QUEUE]) : the keys in the order given
ListenOrder == <<DXF_QUEUE, GCODE_QUEUE, ZIP_QUEUE>>
Queues == {ListenOrder[i] : i \in 1..Len(ListenOrder)}
\* every list a message is pushed to
AllQueues == Queues \cup {DRILLING_QUEUE}

JobStatusEnum == {"Created", "Processing", "Completed", "Failed"}
Terminal == {"Completed", "Failed"}

\* context of a job: the fields process_job reads from it
Context(a, ids) == [dxf_artifact_id |-> a, job_ids |-> ids]
NoContext == Context(0, {})

NoPayload == [job_id |-> 0, job_kind |-> "none", context |-> NoContext,
              idempotency_key |-> NoKey]

VARIABLES
  cam_jobs,     \* table cam_jobs: sequence of rows, the row's id is its index
  artifacts,    \* table artifacts: sequence of rows, the row's id is its index
  objects,      \* object store: key -> number of put_object calls made for it
  queue,        \* Redis lists, head of the list = first element
  dlq,          \* Redis list cam:dlq
  pc,           \* position of each worker in run_worker
  payload,      \* payload the worker popped
  wqueue,       \* queue the worker popped it from
  wattempt,     \* job.attempt as read by the except-handler
  redelivered,  \* duplicate deliveries made so far
  retries,      \* per job: Processing -> Created writes performed
  fails,        \* per job: times process_job raised
  faults,       \* transient failures injected so far
  executing,    \* per job: workers currently inside process_job for it
  responses,    \* results returned to submitters: <<key, job_id or 0 (HTTP 500)>>
  dxf_generator_available,  \* worker.py DXF_GENERATOR_AVAILABLE: ezdxf imported
  stop,         \* per worker process: stop_event.is_set()
  calc          \* argument and result of the computation under study

vars == <<cam_jobs, artifacts, objects, queue, dlq, pc, payload,
          wqueue, wattempt, redelivered, retries, fails, faults,
          executing, responses, dxf_generator_available, stop, calc>>

\* what no step of the job pipeline changes
envVars == <<dxf_generator_available, calc>>

workerVars == <<pc, payload, wqueue, wattempt>>
ghostVars == <<retries, fails, faults, executing, responses>>

(* ------------------------------ queues -------------------------------- *)
\* r.lpush(queue, raw): the new element becomes the head of the list
LPush(list, m) == <<m>> \o list

\* the keys carried by the messages that exist: waiting, held by a worker or
\* kept in the DLQ
KeysInUse ==
  UNION {{queue[q][i].idempotency_key : i \in 1..Len(queue[q])} : q \in AllQueues}
    \cup {payload[w].idempotency_key : w \in Workers}
    \cup {dlq[i].payload.idempotency_key : i \in 1..Len(dlq)}

\* str(uuid.uuid4()): a value equal to no client key and to no key in use
\* (the least such value: uuids are only ever compared for equality)
Uuid4 ==
  CHOOSE k \in (MaxKeys + 1)..(MaxKeys + 1 + Cardinality(KeysInUse)) :
    /\ k \notin KeysInUse
    /\ \A m \in (MaxKeys + 1)..(k - 1) : m \in KeysInUse

\* enqueue(queue, payload): overwrites payload["idempotency_key"] with a new
\* uuid4 and LPUSHes the payload
enqueue(qs, q, p) ==
  [qs EXCEPT ![q] = LPush(qs[q], [p EXCEPT !.idempotency_key = Uuid4])]

\* index in ListenOrder of the first non-empty list, 0 when all are empty
FirstReady ==
  IF \E i \in 1..Len(ListenOrder) : queue[ListenOrder[i]] # <<>>
  THEN CHOOSE i \in 1..Len(ListenOrder) :
         /\ queue[ListenOrder[i]] # <<>>
         /\ \A k \in 1..(i - 1) : queue[ListenOrder[k]] = <<>>
  ELSE 0

\* BLPOP pops the head of the list
BLPopValue(list) == Head(list)
BLPopRest(list) == Tail(list)

(* --------------------------- job repository --------------------------- *)
\* the table without the unique index: no INSERT is ever rejected
UniqueViolationNoIndex(key) == FALSE

\* unique=True on cam_jobs.idempotency_key: NULLs never conflict
UniqueViolation(key) ==
  key # NoKey /\ \E j \in 1..Len(cam_jobs) : cam_jobs[j].idempotency_key = key

NewJob(kind, ctx, key) ==
  [job_kind |-> kind, status |-> "Created", attempt |-> 0, artifact_id |-> 0,
   context |-> ctx, idempotency_key |-> key, error |-> "none"]

\* update(CAMJob).where(CAMJob.id == job_id).values(...): no row, no effect
UpdateJob(jobs, j, f, v) ==
  IF j \in 1..Len(jobs) THEN [jobs EXCEPT ![j][f] = v] ELSE jobs

\* no computation under study
NoCalc == [op |-> "none"]

\* the job pipeline after start-up: empty tables and lists, idle workers
PipelineInit ==
  /\ cam_jobs = <<>>
  /\ artifacts = <<>>
  /\ objects = <<>>
  /\ queue = [q \in AllQueues |-> <<>>]
  /\ dlq = <<>>
  /\ pc = [w \in Workers |-> "blpop"]
  /\ payload = [w \in Workers |-> NoPayload]
  /\ wqueue = [w \in Workers |-> "none"]
  /\ wattempt = [w \in Workers |-> 0]
  /\ redelivered = 0
  /\ retries = [j \in JobIds |-> 0]
  /\ fails = [j \in JobIds |-> 0]
  /\ faults = 0
  /\ executing = [j \in JobIds |-> {}]
  /\ responses = {}
  /\ stop = [w \in Workers |-> FALSE]

Init ==
  /\ PipelineInit
  /\ dxf_generator_available \in BOOLEAN
  /\ calc = NoCalc

(* --------------------------- submissions ------------------------------ *)
\* insert(CAMJob), commit, enqueue, return the job_id; a key already stored
\* makes the INSERT raise IntegrityError: HTTP 500, nothing enqueued
InsertAndEnqueue(kind, q, ctx, key) ==
  IF UniqueViolation(key)
  THEN /\ responses' = responses \cup {<<key, 0>>}
       /\ UNCHANGED <<cam_jobs, queue>>
  ELSE /\ Len(cam_jobs) < MaxJobs
       /\ cam_jobs' = Append(cam_jobs, NewJob(kind, ctx, key))
       /\ queue' = enqueue(queue, q,
                     [job_id |-> Len(cam_jobs) + 1, job_kind |-> kind,
                      context |-> ctx, idempotency_key |-> key])
       /\ responses' = responses \cup {<<key, Len(cam_jobs) + 1>>}

\* POST /cam/dxf
create_dxf_job(key) ==
  /\ InsertAndEnqueue("DXF", DXF_QUEUE, NoContext, key)
  /\ UNCHANGED <<artifacts, objects, dlq, workerVars, redelivered, retries,
                 fails, faults, executing, stop, envVars>>

\* POST /cam/gcode: 404/400 unless the artifact exists and is of type DXF
create_gcode_job(a, key) ==
  /\ a \in 1..Len(artifacts)
  /\ artifacts[a].type = "DXF"
  /\ InsertAndEnqueue("GCODE", GCODE_QUEUE, Context(a, {}), key)
  /\ UNCHANGED <<artifacts, objects, dlq, workerVars, redelivered, retries,
                 fails, faults, executing, stop, envVars>>

\* POST /cam/drilling: the job row carries no idempotency key
create_drilling_job ==
  /\ InsertAndEnqueue("DRILLING", DRILLING_QUEUE, NoContext, NoKey)
  /\ UNCHANGED <<artifacts, objects, dlq, workerVars, redelivered, retries,
                 fails, faults, executing, stop, envVars>>

\* submit_zip(job_ids, idempotency_key) of the pipeline API: records a ZIP job
\* in Created and enqueues it on the zip queue (submitted here without a key)
submit_zip(ids) ==
  /\ Len(cam_jobs) < MaxJobs
  /\ cam_jobs' = Append(cam_jobs, NewJob("ZIP", Context(0, ids), NoKey))
  /\ queue' = enqueue(queue, ZIP_QUEUE,
                [job_id |-> Len(cam_jobs) + 1, job_kind |-> "ZIP",
                 context |-> Context(0, ids), idempotency_key |-> NoKey])
  /\ UNCHANGED <<artifacts, objects, dlq, workerVars, redelivered, retries,
                 fails, faults, executing, responses, stop, envVars>>

(* ------------------- settings merge at job submission ------------------ *)
\* Python None: a request field that is null or left out, a factory setting
\* that is not stored
None == -1

\* api/constants.py
DEFAULT_SHEET_WIDTH_MM == 2800
DEFAULT_SHEET_HEIGHT_MM == 2070
DEFAULT_GAP_MM == 4
DEFAULT_SPINDLE_SPEED == 18000
DEFAULT_FEED_RATE_CUTTING == 800
DEFAULT_FEED_RATE_PLUNGE == 400
DEFAULT_CUT_DEPTH == 18
DEFAULT_SAFE_HEIGHT == 5
DEFAULT_TOOL_DIAMETER == 6

\* Literal["weihong", "syntec", "fanuc", "dsp", "homag"]: a profile is written
\* as its index in this list
MachineProfileNames == <<"weihong", "syntec", "fanuc", "dsp", "homag">>

SETTINGS_DEFAULTS ==
  [machine_profile |-> 1,
   sheet_width_mm |-> DEFAULT_SHEET_WIDTH_MM,
   sheet_height_mm |-> DEFAULT_SHEET_HEIGHT_MM,
   gap_mm |-> DEFAULT_GAP_MM,
   spindle_speed |-> DEFAULT_SPINDLE_SPEED,
   feed_rate_cutting |-> DEFAULT_FEED_RATE_CUTTING,
   feed_rate_plunge |-> DEFAULT_FEED_RATE_PLUNGE,
   cut_depth |-> DEFAULT_CUT_DEPTH,
   safe_height |-> DEFAULT_SAFE_HEIGHT,
   tool_diameter |-> DEFAULT_TOOL_DIAMETER]

\* the knobs create_dxf_job and create_gcode_job resolve
Knobs == DOMAIN SETTINGS_DEFAULTS

\* the knobs resolved by "req.x or factory_settings.get(x) or default"
OrKnobs == {"sheet_width_mm", "sheet_height_mm", "machine_profile"}

\* what a request may carry for a knob: nothing, or values DXFJobRequest /
\* GCodeJobRequest accept (the ends of the accepted range; the sheet size of
\* a DXF request has no constraint)
RequestValues(k) ==
  {None} \cup
    CASE k \in {"sheet_width_mm", "sheet_height_mm"} -> {0, 1220, 3050}
      [] k = "gap_mm" -> {0, 3}
      [] k = "machine_profile" -> 1..Len(MachineProfileNames)
      [] k = "spindle_speed" -> {1000, 30000}
      [] k = "feed_rate_cutting" -> {100, 15000}
      [] k = "feed_rate_plunge" -> {100, 5000}
      [] k = "cut_depth" -> {1, 50}
      [] k = "safe_height" -> {1, 50}
      [] k = "tool_diameter" -> {1, 20}

\* what factory.settings may hold for a knob: update_settings stores values
\* FactorySettingsUpdate accepts and removes the key on null
FactoryValues(k) ==
  {None} \cup
    CASE k \in {"sheet_width_mm", "sheet_height_mm"} -> {100, 5000}
      [] k = "gap_mm" -> {0, 50}
      [] k = "machine_profile" -> 1..Len(MachineProfileNames)
      [] k = "spindle_speed" -> {1000, 30000}
      [] k = "feed_rate_cutting" -> {100, 15000}
      [] k = "feed_rate_plunge" -> {100, 5000}
      [] k = "cut_depth" -> {1, 50}
      [] k = "safe_height" -> {1, 100}
      [] k = "tool_diameter" -> {1, 30}

\* the request model: DXFJobRequest.gap_mm is "float = Field(DEFAULT_GAP_MM)",
\* every other knob is "... | None = None"
RequestField(k, raw) ==
  IF k = "gap_mm" /\ raw = None THEN DEFAULT_GAP_MM ELSE raw

\* truth value of a Python number or None
Truthy(v) == v # None /\ v # 0

\* a or b or c
OrChain(a, b, c) == IF Truthy(a) THEN a ELSE IF Truthy(b) THEN b ELSE c

\* factory_settings.get(key, default)
Get(f, d) == IF f = None THEN d ELSE f

\* the value create_dxf_job / create_gcode_job put in the job context
ResolveKnob(k, raw, f) ==
  LET r == RequestField(k, raw)
      d == SETTINGS_DEFAULTS[k]
  IN IF k \in OrKnobs
     THEN OrChain(r, f, d)
     ELSE IF r # None THEN r ELSE Get(f, d)

(* --------------------- parameters of a G-code job ---------------------- *)
\* api/constants.py
DEFAULT_THICKNESS_MM == 16
DEFAULT_STEP_DOWN == 6

\* MACHINE_PROFILES[name]: the fields of the base profile that the machining
\* constraints read, with the values of api/constants.py
BaseProfile ==
  [cut_depth |-> DEFAULT_CUT_DEPTH, step_down |-> DEFAULT_STEP_DOWN,
   tool_diameter |-> DEFAULT_TOOL_DIAMETER]

\* the context create_gcode_job stores: request > factory settings > default
GcodeContext(request, factory) ==
  [cut_depth |-> ResolveKnob("cut_depth", request.cut_depth, factory.cut_depth),
   tool_diameter |-> ResolveKnob("tool_diameter", request.tool_diameter,
                                 factory.tool_diameter)]

\* custom_profile = MachineProfile(...): cut_depth and tool_diameter come from
\* the context, step_down is always the one of the base profile
CustomProfile(context) ==
  [cut_depth |-> Get(context.cut_depth, BaseProfile.cut_depth),
   step_down |-> BaseProfile.step_down,
   tool_diameter |-> Get(context.tool_diameter, BaseProfile.tool_diameter)]

\* dxf_to_gcode(dxf_data, custom_profile, cut_depth) raises InvalidMachining:
\* neither the DXF bytes, nor the profile, nor the job context carry the
\* thickness of the panels, so the depth is compared with the default one
InvalidMachining(profile, cut_depth) ==
  \/ cut_depth < DEFAULT_THICKNESS_MM
  \/ profile.step_down > profile.tool_diameter

(* ------------------------------ worker -------------------------------- *)
\* entry pushed on cam:dlq
DlqEntry(err, p) == [error |-> err, payload |-> p]

\* the select on CAMJob.idempotency_key that makes run_worker skip a message
IdempotencyHit(key) ==
  key # NoKey /\ \E j \in 1..Len(cam_jobs) : cam_jobs[j].idempotency_key = key

\* process_job, "-> Processing": the UPDATE carries no condition on status
ProcessingWrite(jobs, j) == UpdateJob(jobs, j, "status", "Processing")

\* a loop that goes back to BLPOP whatever the stop flag says
LoopTopNoCheck(w) == "blpop"

\* "while not stop_event.is_set()": where the worker is after the end of an
\* iteration
LoopTop(w) == IF stop[w] THEN "stopped" ELSE "blpop"

\* a worker that never tests the job_id
MissingJobIdNever(p) == FALSE

\* job_id = payload.get("job_id"); "if not job_id"
MissingJobId(p) == p.job_id = 0

\* what run_worker does with a message p received from list q: the job_id
\* test, the idempotency test, and the first statement of process_job
Receive(w, q, p) ==
  IF MissingJobId(p)
  THEN /\ dlq' = LPush(dlq, DlqEntry("Missing job_id", p))
       /\ pc' = [pc EXCEPT ![w] = LoopTop(w)]
       /\ UNCHANGED <<cam_jobs, payload, wqueue, wattempt, executing>>
  ELSE IF IdempotencyHit(p.idempotency_key)
  THEN /\ pc' = [pc EXCEPT ![w] = LoopTop(w)]
       /\ UNCHANGED <<cam_jobs, dlq, payload, wqueue, wattempt, executing>>
  ELSE /\ cam_jobs' = ProcessingWrite(cam_jobs, p.job_id)
       /\ pc' = [pc EXCEPT ![w] = "work"]
       /\ payload' = [payload EXCEPT ![w] = p]
       /\ wqueue' = [wqueue EXCEPT ![w] = q]
       /\ executing' = [executing EXCEPT ![p.job_id] = @ \cup {w}]
       /\ UNCHANGED <<dlq, wattempt>>

\* run_worker: a BLPOP that returned a message; a BLPOP that is pending when
\* the stop flag is set still returns the next message
Pop(w) ==
  /\ pc[w] = "blpop"
  /\ FirstReady # 0
  /\ LET q == ListenOrder[FirstReady]
     IN /\ queue' = [queue EXCEPT ![q] = BLPopRest(queue[q])]
        /\ Receive(w, q, BLPopValue(queue[q]))
  /\ UNCHANGED <<artifacts, objects, redelivered, retries, fails,
                 faults, responses, stop, envVars>>

\* storage key of the artifact a job writes
StorageKey(kind, j) == <<kind, j>>

\* storage.put_object(key, data): creates the object or replaces its content
PutObject(objs, key) ==
  IF key \in DOMAIN objs
  THEN [objs EXCEPT ![key] = @ + 1]
  ELSE [k \in DOMAIN objs \cup {key} |-> IF k = key THEN 1 ELSE objs[k]]

\* Panel(..., drilling_holes=...): the dataclass Panel has no field
\* drilling_holes, so building the panels of a DXF job raises TypeError
RaisesTypeError(p) == p.job_kind = "DXF" /\ dxf_generator_available

\* ValueError raised by the GCODE and ZIP branches before any work is done
RaisesValueError(p) ==
  \/ /\ p.job_kind = "GCODE"
     /\ \/ p.context.dxf_artifact_id = 0
        \/ p.context.dxf_artifact_id \notin 1..Len(artifacts)
  \/ /\ p.job_kind = "ZIP"
     /\ p.context.job_ids = {}

\* the GCODE branch, once the DXF artifact is loaded: dxf_to_gcode is called
\* with the custom profile and the cut depth of the job context
RaisesInvalidMachining(p) ==
  /\ p.job_kind = "GCODE"
  /\ calc.op = "gcode"
  /\ LET context == GcodeContext(calc.request, calc.factory)
     IN InvalidMachining(CustomProfile(context), context.cut_depth)

\* process_job raises on every run of this payload
Raises(p) ==
  RaisesTypeError(p) \/ RaisesValueError(p) \/ RaisesInvalidMachining(p)
ErrorOf(p) ==
  IF RaisesTypeError(p) THEN "TypeError"
  ELSE IF RaisesValueError(p) THEN "ValueError" ELSE "InvalidMachining"

\* the branches of process_job that store an artifact: DXF (when the
\* generator was imported), GCODE and ZIP; any other kind goes straight to
\* Completed
WritesArtifact(p) ==
  \/ p.job_kind \in {"GCODE", "ZIP"}
  \/ p.job_kind = "DXF" /\ dxf_generator_available

\* a handler that retries once more than MAX_RETRIES allows
MayRetryOffByOne(j) == j \in 1..Len(cam_jobs) /\ cam_jobs[j].attempt <= MAX_RETRIES

\* except Exception: the test "job and job.attempt < MAX_RETRIES"
MayRetry(j) == j \in 1..Len(cam_jobs) /\ cam_jobs[j].attempt < MAX_RETRIES

\* process_job raised e: the except-handler of run_worker reads the job and
\* either starts the backoff sleep or pushes to the DLQ and marks Failed
Raise(w, e) ==
  LET j == payload[w].job_id
  IN /\ fails' = [fails EXCEPT ![j] = @ + 1]
     /\ executing' = [executing EXCEPT ![j] = @ \ {w}]
     /\ IF MayRetry(j)
        THEN /\ wattempt' = [wattempt EXCEPT ![w] = cam_jobs[j].attempt]
             /\ pc' = [pc EXCEPT ![w] = "backoff"]
             /\ UNCHANGED <<cam_jobs, dlq, payload, wqueue>>
        ELSE /\ dlq' = LPush(dlq, DlqEntry(e, payload[w]))
             /\ cam_jobs' = UpdateJob(UpdateJob(cam_jobs, j, "status", "Failed"),
                                      j, "error", e)
             /\ pc' = [pc EXCEPT ![w] = LoopTop(w)]
             /\ payload' = [payload EXCEPT ![w] = NoPayload]
             /\ wqueue' = [wqueue EXCEPT ![w] = "none"]
             /\ UNCHANGED wattempt

\* the ZIP branch: the jobs of job_ids whose file is written to the archive,
\* those that have a row, an artifact_id and an Artifact row; the others are
\* passed over
Bundled(p) ==
  IF p.job_kind = "ZIP"
  THEN {i \in p.context.job_ids :
          /\ i \in 1..Len(cam_jobs)
          /\ cam_jobs[i].artifact_id \in 1..Len(artifacts)}
  ELSE {}

\* process_job, the branch of the job kind, succeeding: put_object, insert the
\* Artifact, set artifact_id, commit
Work(w) ==
  /\ pc[w] = "work"
  /\ ~Raises(payload[w])
  /\ LET p == payload[w]
         key == StorageKey(p.job_kind, p.job_id)
     IN IF WritesArtifact(p)
        THEN /\ objects' = PutObject(objects, key)
             /\ artifacts' = Append(artifacts,
                                    [type |-> p.job_kind, storage_key |-> key,
                                     members |-> Bundled(p)])
             /\ cam_jobs' = UpdateJob(cam_jobs, p.job_id, "artifact_id", Len(artifacts) + 1)
        ELSE UNCHANGED <<objects, artifacts, cam_jobs>>
  /\ pc' = [pc EXCEPT ![w] = "complete"]
  /\ UNCHANGED <<queue, dlq, payload, wqueue, wattempt, redelivered,
                 ghostVars, stop, envVars>>

\* process_job raises in the branch of the job kind, whatever the environment
\* does: TypeError for a DXF job, ValueError for a context without
\* dxf_artifact_id / job_ids or a missing artifact
WorkRaises(w) ==
  /\ pc[w] = "work"
  /\ Raises(payload[w])
  /\ Raise(w, ErrorOf(payload[w]))
  /\ UNCHANGED <<artifacts, objects, queue, redelivered, retries, faults,
                 responses, stop, envVars>>

\* process_job raises because the object store or the database fails: before
\* anything is written, or after put_object stored the object and before the
\* commit of the Artifact row (the session is rolled back, the object stays)
WorkFaults(w) ==
  /\ pc[w] = "work"
  /\ ~Raises(payload[w])
  /\ faults < MaxFaults
  /\ faults' = faults + 1
  /\ \E afterPut \in BOOLEAN :
       /\ afterPut => WritesArtifact(payload[w])
       /\ objects' = IF afterPut
                     THEN PutObject(objects, StorageKey(payload[w].job_kind,
                                                        payload[w].job_id))
                     ELSE objects
  /\ Raise(w, "Transient")
  /\ UNCHANGED <<artifacts, queue, redelivered, retries, responses, stop,
                 envVars>>

\* process_job, "-> Completed" and its commit
Complete(w) ==
  /\ pc[w] = "complete"
  /\ cam_jobs' = UpdateJob(cam_jobs, payload[w].job_id, "status", "Completed")
  /\ executing' = [executing EXCEPT ![payload[w].job_id] = @ \ {w}]
  /\ pc' = [pc EXCEPT ![w] = LoopTop(w)]
  /\ payload' = [payload EXCEPT ![w] = NoPayload]
  /\ wqueue' = [wqueue EXCEPT ![w] = "none"]
  /\ UNCHANGED <<artifacts, objects, queue, dlq, wattempt,
                 redelivered, retries, fails, faults, responses, stop, envVars>>

\* a handler that writes back the attempt it read, without the increment
NextAttemptNoIncrement(a) == a

\* values(attempt=job.attempt + 1, ...) with the attempt read before the sleep
NextAttempt(a) == a + 1

\* after the sleep: write attempt and Created, commit, re-enqueue
Retry(w) ==
  /\ pc[w] = "backoff"
  /\ LET j == payload[w].job_id
     IN /\ cam_jobs' = UpdateJob(UpdateJob(cam_jobs, j, "attempt",
                                           NextAttempt(wattempt[w])),
                                 j, "status", "Created")
        /\ retries' = [retries EXCEPT ![j] = @ + 1]
  /\ queue' = enqueue(queue, wqueue[w], payload[w])
  /\ pc' = [pc EXCEPT ![w] = LoopTop(w)]
  /\ payload' = [payload EXCEPT ![w] = NoPayload]
  /\ wqueue' = [wqueue EXCEPT ![w] = "none"]
  /\ wattempt' = [wattempt EXCEPT ![w] = 0]
  /\ UNCHANGED <<artifacts, objects, dlq, redelivered, fails, faults,
                 executing, responses, stop, envVars>>

\* except asyncio.CancelledError: break -- the task is cancelled at an await
\* while it holds a popped message; the loop ends, the message is not put back
Cancel(w) ==
  /\ pc[w] \notin {"blpop", "stopped"}
  /\ pc' = [pc EXCEPT ![w] = "stopped"]
  /\ executing' = [j \in JobIds |-> executing[j] \ {w}]
  /\ UNCHANGED <<cam_jobs, artifacts, objects, queue, dlq, payload,
                 wqueue, wattempt, redelivered, retries, fails, faults,
                 responses, stop, envVars>>

\* at-least-once broker: the message at the head of a list is handed to a
\* worker and stays in the list, to be delivered again
Redeliver(w) ==
  /\ pc[w] = "blpop"
  /\ redelivered < MaxRedeliver
  /\ FirstReady # 0
  /\ redelivered' = redelivered + 1
  /\ LET q == ListenOrder[FirstReady]
     IN Receive(w, q, BLPopValue(queue[q]))
  /\ UNCHANGED <<artifacts, objects, queue, retries, fails, faults,
                 responses, stop, envVars>>

\* SIGINT / SIGTERM: the signal handler runs stop_event.set() while the
\* worker task is suspended at any of its awaits
SetStop(w) ==
  /\ ~stop[w]
  /\ pc[w] # "stopped"
  /\ stop' = [stop EXCEPT ![w] = TRUE]
  /\ UNCHANGED <<cam_jobs, artifacts, objects, queue, dlq, workerVars,
                 redelivered, ghostVars, envVars>>

\* BLPOP returns None after its 5 s on empty lists: "continue", and the loop
\* test ends the loop when the stop flag is set
Timeout(w) ==
  /\ pc[w] = "blpop"
  /\ FirstReady = 0
  /\ stop[w]
  /\ pc' = [pc EXCEPT ![w] = LoopTop(w)]
  /\ UNCHANGED <<cam_jobs, artifacts, objects, queue, dlq, payload, wqueue,
                 wattempt, redelivered, ghostVars, stop, envVars>>

\* another client of the Redis server pushes a payload without job_id on a
\* list the worker listens to: json.loads(raw) accepts any JSON object
ForeignPush(q) ==
  /\ Cardinality({i \in 1..Len(dlq) : dlq[i].payload = NoPayload})
       + Cardinality({<<o, i>> \in Queues \X (1..MaxJobs + MaxForeign) :
                        i <= Len(queue[o]) /\ queue[o][i] = NoPayload})
       < MaxForeign
  /\ queue' = [queue EXCEPT ![q] = LPush(queue[q], NoPayload)]
  /\ UNCHANGED <<cam_jobs, artifacts, objects, dlq, workerVars, redelivered,
                 ghostVars, stop, envVars>>

\* the submissions that change the tables: create_gcode_job is left out, it
\* answers 404 as long as no Artifact of type DXF is stored, and no run of
\* process_job stores one (RaisesTypeError)
Submit ==
  \/ \E key \in {NoKey} \cup ClientKeys : create_dxf_job(key)
  \/ create_drilling_job
  \/ \E ids \in {{}, 1..Len(cam_jobs)} : submit_zip(ids)

WorkerStep(w) ==
  \/ Pop(w)
  \/ Work(w)
  \/ WorkRaises(w)
  \/ WorkFaults(w)
  \/ Complete(w)
  \/ Retry(w)

Next ==
  \/ Submit
  \/ \E w \in Workers : WorkerStep(w)

Spec == Init /\ [][Next]_vars

\* the same program when the lists also receive payloads without job_id
NextForeign ==
  \/ Next
  \/ \E q \in Queues : ForeignPush(q)

SpecForeign == Init /\ [][NextForeign]_vars

\* the same program when a worker task may be cancelled while it holds a job
NextCancel ==
  \/ Next
  \/ \E w \in Workers : Cancel(w)

SpecCancel == Init /\ [][NextCancel]_vars

\* the same program over a broker that may deliver a message more than once
NextALO ==
  \/ Next
  \/ \E w \in Workers : Redeliver(w)

SpecALO == Init /\ [][NextALO]_vars

\* fairness of the worker loops: a worker that is not cancelled keeps polling
\* and runs its job and its handler to the end
FairSpecCancel == SpecCancel /\ \A w \in Workers : WF_vars(WorkerStep(w))

\* the program with fair worker loops and no cancellation
FairSpec == Spec /\ \A w \in Workers : WF_vars(WorkerStep(w))

\* the same program when the worker processes may receive SIGINT / SIGTERM
NextStop ==
  \/ Next
  \/ \E w \in Workers : SetStop(w)
  \/ \E w \in Workers : Timeout(w)

SpecStop == Init /\ [][NextStop]_vars

FairSpecStop ==
  SpecStop /\ \A w \in Workers : WF_vars(WorkerStep(w) \/ Timeout(w))

\* the program when the object store, the database and the broker never fail
NextNoFault ==
  \/ Submit
  \/ \E w \in Workers : Pop(w) \/ Work(w) \/ WorkRaises(w) \/ Complete(w) \/ Retry(w)

SpecNoFault == Init /\ [][NextNoFault]_vars

FairSpecNoFault ==
  SpecNoFault
    /\ \A w \in Workers :
         WF_vars(Pop(w) \/ Work(w) \/ WorkRaises(w) \/ Complete(w) \/ Retry(w))

(* ------------------------------ properties ---------------------------- *)
Rows == 1..Len(cam_jobs)
StatusOf(j) == IF j \in Rows THEN cam_jobs[j].status ELSE "none"
InDlq(j) == \E i \in 1..Len(dlq) : dlq[i].payload.job_id = j

\* C1: once a job's status is Completed or Failed, no step changes it.
TerminalStability ==
  [][\A j \in Rows : cam_jobs[j].status \in Terminal
                       => cam_jobs'[j].status = cam_jobs[j].status]_vars

\* C2: no job is sent back from Processing to Created more than MAX_RETRIES
\* times.
RetryBound == \A j \in JobIds : retries[j] <= MAX_RETRIES

\* C3: a submission that carries an idempotency key is answered with the
\* job_id of the one job stored under that key, never with a failure.
IdempotentSubmission ==
  \A r \in responses :
    r[1] # NoKey => /\ r[2] \in Rows
                    /\ cam_jobs[r[2]].idempotency_key = r[1]

\* C4: at most one job row exists for each non-null idempotency key.
UniqueIdempotencyKey ==
  \A i \in Rows : \A j \in Rows :
    (i # j /\ cam_jobs[i].idempotency_key # NoKey)
      => cam_jobs[i].idempotency_key # cam_jobs[j].idempotency_key

\* a submission that reused a stored key has been made and answered
DuplicateKeySubmitted ==
  \E r \in responses : r[1] # NoKey /\ r[2] = 0 /\ UniqueViolation(r[1])

\* LPUSH adds at the head: the message that was enqueued first, of those
\* waiting in a list, is its last element
Oldest(list) == list[Len(list)]

\* C5: the message a worker pops from a list is the one that was enqueued
\* first among the messages waiting in that list.
FifoDelivery ==
  [][\A w \in Workers :
       (pc[w] = "blpop" /\ pc'[w] = "work" /\ queue' # queue)
         => payload'[w] = Oldest(queue[wqueue'[w]])]_vars

\* C6: a job does not stay in Processing forever while some worker keeps
\* running.
ProcessingLeadsOn ==
  \A j \in JobIds :
    (StatusOf(j) = "Processing")
      ~> \/ StatusOf(j) # "Processing"
         \/ \A w \in Workers : pc[w] = "stopped"

\* C7: at most one worker at a time is executing a given job.
SingleExecutor == \A j \in JobIds : Cardinality(executing[j]) <= 1

\* C8: a job's stored attempt equals the number of retries performed for it.
AttemptCountsRetries == \A j \in Rows : cam_jobs[j].attempt = retries[j]

\* the job's context makes process_job raise ValueError on every run
NonRetryable(j) ==
  RaisesValueError([job_kind |-> cam_jobs[j].job_kind,
                    context |-> cam_jobs[j].context])

\* C9: a job whose processing failed with a non-retryable error is Failed
\* with a DLQ entry and has never been retried.
NonRetryableFailsAtOnce ==
  \A j \in Rows :
    (NonRetryable(j) /\ fails[j] >= 1)
      => /\ cam_jobs[j].status = "Failed"
         /\ InDlq(j)
         /\ retries[j] = 0
         /\ cam_jobs[j].attempt = 0

\* C10: a job that is Completed after k failed runs has attempt = k and no
\* DLQ entry.
RetryThenSuccess ==
  \A j \in Rows :
    cam_jobs[j].status = "Completed"
      => /\ cam_jobs[j].attempt = fails[j]
         /\ fails[j] <= MAX_RETRIES
         /\ ~InDlq(j)

\* a job completed after two failed runs
CompletedAfterTwoFailures ==
  \E j \in Rows : /\ cam_jobs[j].status = "Completed"
                  /\ fails[j] = 2
                  /\ cam_jobs[j].attempt = 2

KindOf(j) == IF j \in Rows THEN cam_jobs[j].job_kind ELSE "none"

\* C11: a DRILLING job that create_drilling_job stored and enqueued is
\* eventually popped by a running worker and reaches Completed or Failed.
DrillingReachesTerminal ==
  \A j \in JobIds : (KindOf(j) = "DRILLING") ~> (StatusOf(j) \in Terminal)

\* C12 as stated: once its stop flag is set a worker starts processing no
\* further message, and it stops holding no job (the job in flight ran
\* through its success, retry or DLQ handling).
StopStartsNoMessage ==
  [][\A w \in Workers :
       /\ stop[w] => ~(pc[w] = "blpop" /\ pc'[w] = "work")
       /\ pc'[w] = "stopped" => payload'[w] = NoPayload]_vars

\* C12: once its stop flag is set a worker never goes back to BLPOP, so it
\* starts at most one further message (the one a BLPOP that was already
\* pending returns); it stops holding no job, and it does stop.
StopDrainsAtMostOne ==
  /\ [][\A w \in Workers :
          /\ (stop[w] /\ pc[w] # "blpop") => pc'[w] # "blpop"
          /\ pc'[w] = "stopped" => (payload'[w] = NoPayload /\ stop'[w])]_vars
  /\ \A w \in Workers : stop[w] ~> (pc[w] = "stopped")

\* the stop flag was set while a job was in flight, and the job went on
StopSetInFlight ==
  \E w \in Workers : \E j \in Rows :
    stop[w] /\ pc[w] = "complete" /\ payload[w].job_id = j

\* C13: every object-store key has been written by at most one put_object
\* call, retries of the job included.
WriteOncePerKey == \A k \in DOMAIN objects : objects[k] <= 1

\* C14: when nothing in the environment fails, a DXF job never ends Failed,
\* and once Completed it has an artifact attached.
DxfJobSucceeds ==
  \A j \in Rows :
    cam_jobs[j].job_kind = "DXF"
      => /\ cam_jobs[j].status # "Failed"
         /\ cam_jobs[j].status = "Completed" => cam_jobs[j].artifact_id # 0

(* ----------------------- settings merge, checked ----------------------- *)
FirstNonNull(a, b, c) == IF a # None THEN a ELSE IF b # None THEN b ELSE c

\* every variable of the job pipeline
pipelineVars ==
  <<cam_jobs, artifacts, objects, queue, dlq, pc, payload, wqueue, wattempt,
    redelivered, retries, fails, faults, executing, responses,
    dxf_generator_available, stop>>

\* an idle pipeline, whose state the computations under study do not touch
PipelineIdle == PipelineInit /\ dxf_generator_available = TRUE

MergeInputs ==
  UNION {{[op |-> "merge", knob |-> k, request |-> r, factory |-> f,
           out |-> None, done |-> FALSE]
            : r \in RequestValues(k), f \in FactoryValues(k)} : k \in Knobs}

MergeInit == PipelineIdle /\ calc \in MergeInputs

\* a submission resolves one knob
resolve_knob ==
  /\ calc.op = "merge"
  /\ ~calc.done
  /\ calc' = [calc EXCEPT !.out = ResolveKnob(calc.knob, calc.request, calc.factory),
                          !.done = TRUE]
  /\ UNCHANGED pipelineVars

SpecMerge == MergeInit /\ [][resolve_knob]_vars

\* C15: the value stored in the job context for a knob is the first non-null
\* of request field, factory setting and built-in default, and is not null.
MergeIsFirstNonNull ==
  (calc.op = "merge" /\ calc.done)
    => /\ calc.out = FirstNonNull(calc.request, calc.factory,
                                  SETTINGS_DEFAULTS[calc.knob])
       /\ calc.out # None

(* ------------------------- panel layout (DXF) -------------------------- *)
\* Lengths are counted in half-millimetres, so that sizes such as 2.5 mm
\* exist; coordinates returned by rectpack are whole millimetres.
MaxPanels == 2     \* panels of one layout request

\* int(x): truncation towards zero to a whole number of millimetres
int(x) == IF x >= 0 THEN (x \div 2) * 2 ELSE -(((-x) \div 2) * 2)

Max(a, b) == IF a >= b THEN a ELSE b

\* dxf_generator.Panel: the fields the layout reads
Panel(w, h) == [width_mm |-> w, height_mm |-> h]

\* an element of SheetLayout.placed_panels: (panel, x, y, rotated)
Placed(p, x, y, rotated) == [panel |-> p, x |-> x, y |-> y, rotated |-> rotated]

RECURSIVE TotalPanelArea(_)
\* sum(p.width_mm * p.height_mm for p, _, _, _ in placed)
TotalPanelArea(placed) ==
  IF placed = <<>> THEN 0
  ELSE Head(placed).panel.width_mm * Head(placed).panel.height_mm
         + TotalPanelArea(Tail(placed))

\* SheetLayout(...); utilization is utilization_percent * sheet_area / 100,
\* which orders the layouts of one sheet as utilization_percent does
SheetLayout(sw, sh, placed, unplaced) ==
  [sheet_width |-> sw, sheet_height |-> sh,
   placed_panels |-> placed, unplaced_panels |-> unplaced,
   utilization |-> IF sw * sh > 0 THEN TotalPanelArea(placed) ELSE 0]

\* insertion of p behind the panels that are at least as high
InsertByHeight(p, s) ==
  LET k == Cardinality({i \in 1..Len(s) : s[i].height_mm >= p.height_mm})
  IN SubSeq(s, 1, k) \o <<p>> \o SubSeq(s, k + 1, Len(s))

RECURSIVE SortedByHeight(_)
\* sorted(panels, key=lambda p: -p.height_mm): stable, highest first
SortedByHeight(s) ==
  IF s = <<>> THEN <<>>
  ELSE InsertByHeight(s[Len(s)], SortedByHeight(SubSeq(s, 1, Len(s) - 1)))

\* one iteration of the loop of _simple_layout
SimpleStep(st, panel, sw, sh, gap) ==
  LET w == panel.width_mm + gap
      h == panel.height_mm + gap
      wrap == st.x + w > sw
      x == IF wrap THEN 0 ELSE st.x
      y == IF wrap THEN st.y + st.row_height ELSE st.y
      row_height == IF wrap THEN 0 ELSE st.row_height
  IN IF y + h > sh
     THEN [x |-> x, y |-> y, row_height |-> row_height,
           placed |-> st.placed, unplaced |-> Append(st.unplaced, panel)]
     ELSE [x |-> x + w, y |-> y, row_height |-> Max(row_height, h),
           placed |-> Append(st.placed, Placed(panel, x, y, FALSE)),
           unplaced |-> st.unplaced]

RECURSIVE SimpleLoop(_, _, _, _, _)
SimpleLoop(st, ps, sw, sh, gap) ==
  IF ps = <<>> THEN st
  ELSE SimpleLoop(SimpleStep(st, Head(ps), sw, sh, gap), Tail(ps), sw, sh, gap)

\* _simple_layout(panels, sheet_width, sheet_height, gap_mm)
simple_layout(panels, sw, sh, gap) ==
  LET st == SimpleLoop([x |-> 0, y |-> 0, row_height |-> 0,
                        placed |-> <<>>, unplaced |-> <<>>],
                       SortedByHeight(panels), sw, sh, gap)
  IN SheetLayout(sw, sh, st.placed, st.unplaced)

\* packer.add_rect(int(panel.width_mm + gap_mm), int(panel.height_mm + gap_mm))
RectOf(p, gap) == [w |-> int(p.width_mm + gap), h |-> int(p.height_mm + gap)]

\* the places rectpack may give a rectangle in the bin: whole-millimetre
\* coordinates, inside the bin, turned by 90 degrees only when rotation is on
Slots(r, bw, bh, rotation) ==
  LET dims == {<<r.w, r.h>>} \cup (IF rotation THEN {<<r.h, r.w>>} ELSE {})
  IN UNION {{[x |-> 2 * i, y |-> 2 * j, w |-> d[1], h |-> d[2]]
               : i \in 0..((bw - d[1]) \div 2), j \in 0..((bh - d[2]) \div 2)}
            : d \in {e \in dims : e[1] > 0 /\ e[2] > 0}}

Disjoint(a, b) ==
  \/ a.x + a.w <= b.x
  \/ b.x + b.w <= a.x
  \/ a.y + a.h <= b.y
  \/ b.y + b.h <= a.y

\* packer.pack() / packer.rect_list() of the rectpack library: some of the
\* rectangles, each at a place in the bin, no two overlapping; at least one
\* rectangle is packed when one fits the empty bin
Packings(rects, bw, bh, rotation) ==
  LET ids == DOMAIN rects
      all == UNION {Slots(rects[i], bw, bh, rotation) : i \in ids}
      fits == {i \in ids : Slots(rects[i], bw, bh, rotation) # {}}
  IN UNION {{f \in [S -> all] :
               /\ \A i \in S : f[i] \in Slots(rects[i], bw, bh, rotation)
               /\ \A i \in S : \A j \in S : i # j => Disjoint(f[i], f[j])}
            : S \in {T \in SUBSET ids : fits # {} => T # {}}}

\* the ids of a set, in increasing order
IdSeq(S, n) ==
  LET In(i) == i \in S
  IN SelectSeq([i \in 1..n |-> i], In)

\* optimize_layout, after the packing f: placed panels with the rotation flag
\* recomputed from the width of the packed rectangle, and the panels left out
LayoutOfPacking(panels, sw, sh, gap, f) ==
  LET n == Len(panels)
      in == IdSeq(DOMAIN f, n)
      out == IdSeq((1..n) \ DOMAIN f, n)
  IN SheetLayout(sw, sh,
       [k \in 1..Len(in) |->
          Placed(panels[in[k]], f[in[k]].x, f[in[k]].y,
                 f[in[k]].w # RectOf(panels[in[k]], gap).w)],
       [k \in 1..Len(out) |-> panels[out[k]]])

\* the layouts optimize_layout(panels, sheet_width, sheet_height, gap_mm,
\* allow_rotation, use_guillotine) may return; use_guillotine selects the
\* packing algorithm of rectpack and leaves the bin and the rectangles as
\* they are
optimize_layout(panels, sw, sh, gap, allow_rotation, rectpack) ==
  IF ~rectpack
  THEN {simple_layout(panels, sw, sh, gap)}
  ELSE {LayoutOfPacking(panels, sw, sh, gap, f)
          : f \in Packings([i \in 1..Len(panels) |-> RectOf(panels[i], gap)],
                           int(sw), int(sh), allow_rotation)}

\* the strategies of optimize_layout_best, as values of allow_rotation
Strategies == <<FALSE, TRUE, TRUE>>

PanelSides == {2, 5}             \* 1 mm and 2.5 mm
SheetSides == {-2, 0, 4, 8}      \* -1 mm, 0, 2 mm, 4 mm
Gaps == {-2, 0, 2}               \* -1 mm, 0, 1 mm

PanelLists ==
  UNION {[1..n -> {Panel(w, h) : w \in PanelSides, h \in PanelSides}]
           : n \in 1..MaxPanels}

LayoutInputs ==
  {[op |-> "layout", panels |-> ps, sheet_width |-> sw, sheet_height |-> sh,
    gap_mm |-> g, done |-> FALSE, error |-> "none",
    out |-> SheetLayout(sw, sh, <<>>, <<>>)]
     : ps \in PanelLists, sw \in SheetSides, sh \in SheetSides, g \in Gaps}

LayoutInit == PipelineIdle /\ calc \in LayoutInputs

\* _simple_layout is called; it has no raise statement
call_simple_layout ==
  /\ calc.op = "layout"
  /\ ~calc.done
  /\ calc' = [calc EXCEPT
                !.out = simple_layout(calc.panels, calc.sheet_width,
                                      calc.sheet_height, calc.gap_mm),
                !.done = TRUE]
  /\ UNCHANGED pipelineVars

\* optimize_layout is called with rectpack installed; it has no raise
\* statement
call_optimize_layout ==
  /\ calc.op = "layout"
  /\ ~calc.done
  /\ \E rotation \in BOOLEAN :
       \E l \in optimize_layout(calc.panels, calc.sheet_width,
                                calc.sheet_height, calc.gap_mm, rotation, TRUE) :
         calc' = [calc EXCEPT !.out = l, !.done = TRUE]
  /\ UNCHANGED pipelineVars

SpecLayout == LayoutInit /\ [][call_simple_layout \/ call_optimize_layout]_vars

\* the request is one the layout accepts
ValidLayoutInput ==
  calc.sheet_width > 0 /\ calc.sheet_height > 0 /\ calc.gap_mm >= 0

\* width and height of a placed panel on the sheet
PlacedW(e) == IF e.rotated THEN e.panel.height_mm ELSE e.panel.width_mm
PlacedH(e) == IF e.rotated THEN e.panel.width_mm ELSE e.panel.height_mm

\* C16: every placed panel lies inside the sheet, and every panel of the
\* request is either placed or reported unplaced.
PlacedInsideSheet ==
  (calc.op = "layout" /\ calc.done /\ ValidLayoutInput)
    => /\ \A k \in 1..Len(calc.out.placed_panels) :
            LET e == calc.out.placed_panels[k]
            IN /\ 0 <= e.x
               /\ 0 <= e.y
               /\ e.x + PlacedW(e) <= calc.sheet_width
               /\ e.y + PlacedH(e) <= calc.sheet_height
       /\ Len(calc.out.placed_panels) + Len(calc.out.unplaced_panels)
            = Len(calc.panels)

\* C17: the rectangles of two distinct placed panels, each grown by gap_mm / 2
\* on every side, do not overlap.
GapBetweenPlaced ==
  (calc.op = "layout" /\ calc.done /\ ValidLayoutInput)
    => \A k \in 1..Len(calc.out.placed_panels) :
         \A m \in 1..Len(calc.out.placed_panels) :
           k # m =>
             LET a == calc.out.placed_panels[k]
                 b == calc.out.placed_panels[m]
             IN \/ a.x + PlacedW(a) + calc.gap_mm <= b.x
                \/ b.x + PlacedW(b) + calc.gap_mm <= a.x
                \/ a.y + PlacedH(a) + calc.gap_mm <= b.y
                \/ b.y + PlacedH(b) + calc.gap_mm <= a.y

\* C18: a layout request with a sheet side <= 0 or a gap < 0 fails with
\* InvalidInput.
InvalidLayoutRejected ==
  (calc.op = "layout" /\ calc.done /\ ~ValidLayoutInput)
    => calc.error = "InvalidInput"

\* a DXF job's layout request: valid sheet and gap, the optimize flag of the
\* job context, and whether the rectpack library is installed
DxfInputs ==
  {[op |-> "dxf", panels |-> ps, sheet_width |-> sw, sheet_height |-> sh,
    gap_mm |-> g, optimize |-> o, rectpack |-> a, done |-> FALSE,
    strategy |-> 0, drawn |-> SheetLayout(sw, sh, <<>>, <<>>),
    strategy_utilization |-> 0]
     : ps \in PanelLists,
       sw \in {s \in SheetSides : s > 0}, sh \in {s \in SheetSides : s > 0},
       g \in {e \in Gaps : e >= 0}, o \in BOOLEAN, a \in BOOLEAN}

DxfInit == PipelineIdle /\ calc \in DxfInputs

\* generate_panel_dxf computes the layout it draws: optimize_layout with its
\* default arguments (guillotine, rotation allowed) or _simple_layout; next to
\* it, the utilization of the layout of strategy s of optimize_layout_best
\* for the same request
\* (strategy 2 is the very call generate_panel_dxf makes)
generate_panel_dxf ==
  /\ calc.op = "dxf"
  /\ ~calc.done
  /\ \E s \in 1..Len(Strategies) :
       \E u \in {l.utilization :
                   l \in optimize_layout(calc.panels, calc.sheet_width,
                                         calc.sheet_height, calc.gap_mm,
                                         Strategies[s], calc.rectpack)} :
         \E l2 \in optimize_layout(calc.panels, calc.sheet_width,
                                   calc.sheet_height, calc.gap_mm, TRUE,
                                   calc.rectpack) :
           /\ s = 2 => u = l2.utilization
           /\ calc' = [calc EXCEPT
                         !.drawn = IF calc.optimize
                                   THEN l2
                                   ELSE simple_layout(calc.panels,
                                          calc.sheet_width, calc.sheet_height,
                                          calc.gap_mm),
                         !.strategy = s,
                         !.strategy_utilization = u,
                         !.done = TRUE]
  /\ UNCHANGED pipelineVars

SpecDxf == DxfInit /\ [][generate_panel_dxf]_vars

\* C19: the layout a DXF job draws has a utilization at least that of each of
\* the three strategies' layouts for the same panels, sheet and gap.
DrawnIsBestOfThree ==
  (calc.op = "dxf" /\ calc.done)
    => calc.drawn.utilization >= calc.strategy_utilization

(* ------------------- G-code job: machining constraints ------------------ *)
\* PanelInput.thickness_mm (gt=0): thickness of the panels the stored DXF
\* was drawn from
Thicknesses == {DEFAULT_THICKNESS_MM, 18, 25}

\* the overrides a GCodeJobRequest carries, and those factory.settings holds
GcodeRequests ==
  [cut_depth : RequestValues("cut_depth"),
   tool_diameter : RequestValues("tool_diameter")]
GcodeFactories ==
  [cut_depth : FactoryValues("cut_depth"),
   tool_diameter : FactoryValues("tool_diameter")]

GcodeInputs ==
  [op : {"gcode"}, thickness_mm : Thicknesses, request : GcodeRequests,
   factory : GcodeFactories]

\* the Artifact row and the object of a DXF file stored earlier
StoredDxf ==
  [type |-> "DXF", storage_key |-> StorageKey("DXF", 0), members |-> {}]

GcodeInit ==
  /\ cam_jobs = <<>>
  /\ artifacts = <<StoredDxf>>
  /\ objects = PutObject(<<>>, StoredDxf.storage_key)
  /\ queue = [q \in AllQueues |-> <<>>]
  /\ dlq = <<>>
  /\ pc = [w \in Workers |-> "blpop"]
  /\ payload = [w \in Workers |-> NoPayload]
  /\ wqueue = [w \in Workers |-> "none"]
  /\ wattempt = [w \in Workers |-> 0]
  /\ redelivered = 0
  /\ retries = [j \in JobIds |-> 0]
  /\ fails = [j \in JobIds |-> 0]
  /\ faults = 0
  /\ executing = [j \in JobIds |-> {}]
  /\ responses = {}
  /\ stop = [w \in Workers |-> FALSE]
  /\ dxf_generator_available = TRUE
  /\ calc \in GcodeInputs

\* POST /cam/gcode for the stored DXF, and the workers
NextGcode ==
  \/ \E key \in {NoKey} \cup ClientKeys : create_gcode_job(1, key)
  \/ \E w \in Workers :
       Pop(w) \/ Work(w) \/ WorkRaises(w) \/ Complete(w) \/ Retry(w)

SpecGcode == GcodeInit /\ [][NextGcode]_vars

\* the effective parameters of the G-code jobs: defaults of the machine
\* profile overridden by the job context
EffectiveProfile == CustomProfile(GcodeContext(calc.request, calc.factory))

RetryOrDeadLetter ==
  [][\A w \in Workers :
       LET j == payload[w].job_id
           q == wqueue[w]
       IN /\ (pc[w] = "work" /\ pc'[w] \notin {"work", "complete"})
               => IF cam_jobs[j].attempt < MAX_RETRIES
                  THEN /\ pc'[w] = "backoff"
                       /\ dlq' = dlq
                       /\ queue' = queue
                  ELSE /\ dlq' = LPush(dlq, DlqEntry(cam_jobs'[j].error, payload[w]))
                       /\ cam_jobs'[j].status = "Failed"
                       /\ cam_jobs'[j].error # "none"
                       /\ queue' = queue
          /\ (pc[w] = "backoff" /\ pc'[w] # "backoff")
               => /\ cam_jobs'[j].attempt = cam_jobs[j].attempt + 1
                  /\ cam_jobs'[j].status = "Created"
                  /\ Len(queue'[q]) = Len(queue[q]) + 1
                  /\ \E i \in 1..Len(queue'[q]) : queue'[q][i].job_id = j
                  /\ \A o \in AllQueues \ {q} : queue'[o] = queue[o]
                  /\ dlq' = dlq]_vars

\* a job that went through every retry and then through the DLQ branch
RetriedThenDeadLettered ==
  \E j \in Rows :
    /\ cam_jobs[j].status = "Failed"
    /\ cam_jobs[j].attempt = MAX_RETRIES
    /\ retries[j] = MAX_RETRIES
    /\ InDlq(j)

(* ------------------------ idempotency check ----------------------------- *)
\* C23: the worker skips a dequeued message exactly when the job record with
\* the key the message was submitted with exists and is Completed or Failed;
\* a message whose job is still Created is processed.
SkipsExactlyProcessed ==
  [][FirstReady # 0 =>
       LET q == ListenOrder[FirstReady]
           j == Head(queue[q]).job_id
           dequeued == \/ Len(queue'[q]) < Len(queue[q])
                       \/ redelivered' # redelivered
           skipped == \A w \in Workers : pc'[w] = pc[w]
       IN (dequeued /\ j \in Rows)
            => (skipped <=> /\ cam_jobs[j].idempotency_key # NoKey
                            /\ cam_jobs[j].status \in Terminal)]_vars

\* C24: enqueue keeps the idempotency key of a payload that carries one: the
\* message of a job submitted with a key carries that key on its list.
EnqueueKeepsKey ==
  \A q \in AllQueues : \A i \in 1..Len(queue[q]) :
    LET j == queue[q][i].job_id
    IN (j \in Rows /\ cam_jobs[j].idempotency_key # NoKey)
         => queue[q][i].idempotency_key = cam_jobs[j].idempotency_key

(* ------------------------ payload without job_id ------------------------ *)
\* C25: dequeuing a payload without job_id adds exactly one DLQ entry (the
\* payload with the error "Missing job_id"), changes no job record, and
\* leaves every worker where it was: the one that popped is at BLPOP again.
MissingJobIdToDlq ==
  [][FirstReady # 0 =>
       LET q == ListenOrder[FirstReady]
           p == Head(queue[q])
       IN (p.job_id = 0 /\ Len(queue'[q]) < Len(queue[q]))
            => /\ dlq' = <<[error |-> "Missing job_id", payload |-> p]>> \o dlq
               /\ cam_jobs' = cam_jobs
               /\ pc' = pc
               /\ payload' = payload]_vars

\* a payload without job_id was dequeued while a job row exists
MissingJobIdSeen ==
  /\ \E i \in 1..Len(dlq) : dlq[i].error = "Missing job_id"
  /\ cam_jobs # <<>>

(* ------------------------------ ZIP bundle ------------------------------ *)
\* C26: the archive of a Completed ZIP job contains the artifact of every
\* job listed in its job_ids, whatever the order in which the jobs ran.
ZipBundlesEveryJob ==
  \A j \in Rows :
    (cam_jobs[j].job_kind = "ZIP" /\ cam_jobs[j].status = "Completed")
      => /\ cam_jobs[j].artifact_id \in 1..Len(artifacts)
         /\ cam_jobs[j].context.job_ids
              \subseteq artifacts[cam_jobs[j].artifact_id].members

(* ---------------------- panel calculator: drilling ---------------------- *)
\* api/panel_calculator.py and api/constants.py, in millimetres
CONFIRMAT_DIAMETER_MM == 5
CONFIRMAT_DEPTH_FACE_MM == 11
CONFIRMAT_DEPTH_EDGE_MM == 50
CONFIRMAT_FRONT_OFFSET_MM == 50
CONFIRMAT_SPACING_MM == 128
SYSTEM32_STEP_MM == 32
SYSTEM32_FRONT_OFFSET_MM == 37
SYSTEM32_DEPTH_MM == 12
DEFAULT_BACK_SLOT_DEPTH_MM == 10

\* one entry of drilling_points
Hole(x, y, depth, side, hardware_type) ==
  [x |-> x, y |-> y, diameter |-> CONFIRMAT_DIAMETER_MM, depth |-> depth,
   side |-> side, hardware_type |-> hardware_type]

\* positions along the depth of the cabinet: two screws, or one in the middle
ConfirmatPositions(length) ==
  IF length - 2 * CONFIRMAT_FRONT_OFFSET_MM > CONFIRMAT_SPACING_MM
  THEN {CONFIRMAT_FRONT_OFFSET_MM, length - CONFIRMAT_FRONT_OFFSET_MM}
  ELSE {length \div 2}

generate_confirmat_holes_for_horizontal(panel_width, panel_height, thickness) ==
  {Hole(x, y, CONFIRMAT_DEPTH_EDGE_MM, "edge", "confirmat") :
     x \in {0, panel_width}, y \in ConfirmatPositions(panel_height)}

generate_confirmat_holes_for_side(panel_width, panel_height, thickness, top_panel, bottom_panel) ==
  {Hole(x, y, CONFIRMAT_DEPTH_FACE_MM, "face", "confirmat") :
     x \in ConfirmatPositions(panel_width),
     y \in (IF top_panel THEN {panel_height - thickness \div 2} ELSE {})
            \cup (IF bottom_panel THEN {thickness \div 2} ELSE {})}

\* rows every 32 mm from bottom_offset + thickness up to
\* panel_height - top_offset - thickness (both offsets 100)
generate_shelf_pin_holes(panel_width, panel_height, thickness, shelf_count) ==
  LET y_start == 100 + thickness
      y_end == panel_height - 100 - thickness
      rows == IF y_start <= y_end
              THEN {y_start + SYSTEM32_STEP_MM * k :
                      k \in 0..((y_end - y_start) \div SYSTEM32_STEP_MM)}
              ELSE {}
  IN IF shelf_count = 0
     THEN {}
     ELSE {Hole(x, y, SYSTEM32_DEPTH_MM, "face", "shelf_pin") :
             x \in {SYSTEM32_FRONT_OFFSET_MM,
                    panel_width - SYSTEM32_FRONT_OFFSET_MM},
             y \in rows}

\* CabinetType; the templates with a top panel, and those with shelf pins
CabinetTypes == {"wall", "base", "base_sink", "drawer", "tall"}

\* template.calculate(): the panels that carry drilling points, the sides and
\* the horizontal panels, each with the thickness of the material
calculate_panels(cabinet_type, width_mm, height_mm, depth_mm, thickness_mm, shelf_count) ==
  LET side_depth == depth_mm - DEFAULT_BACK_SLOT_DEPTH_MM
      side_drilling ==
        IF cabinet_type = "base_sink"
        THEN {Hole(x, y, CONFIRMAT_DEPTH_FACE_MM, "face", "confirmat") :
                x \in {CONFIRMAT_FRONT_OFFSET_MM,
                       side_depth - CONFIRMAT_FRONT_OFFSET_MM},
                y \in {height_mm - thickness_mm \div 2, thickness_mm \div 2}}
        ELSE generate_confirmat_holes_for_side(
               side_depth, height_mm, thickness_mm,
               cabinet_type \in {"wall", "tall"}, TRUE)
             \cup (IF cabinet_type \in {"wall", "base", "tall"}
                   THEN generate_shelf_pin_holes(side_depth, height_mm,
                                                 thickness_mm, shelf_count)
                   ELSE {})
      horizontal_drilling ==
        IF cabinet_type = "base_sink"
        THEN {}
        ELSE generate_confirmat_holes_for_horizontal(
               width_mm - 2 * thickness_mm, side_depth, thickness_mm)
  IN {[name |-> "side", thickness_mm |-> thickness_mm,
       drilling_points |-> side_drilling],
      [name |-> "horizontal", thickness_mm |-> thickness_mm,
       drilling_points |-> horizontal_drilling]}

\* CalculatePanelsRequest: thickness_mm has no constraint; the thickness
\* stored in factory.settings is in (0, 100]; sizes chosen even, so that
\* the halves are whole millimetres
CabinetInputs ==
  [op : {"cabinet"}, cabinet_type : CabinetTypes,
   thickness_mm : {None, 10, 12, 18}, factory_thickness_mm : {None, 8},
   width_mm : {600}, height_mm : {300, 720}, depth_mm : {150, 560},
   shelf_count : {0, 2}, panels : {{}}, done : {FALSE}]

CabinetInit == PipelineIdle /\ calc \in CabinetInputs

\* POST /calculate-panels: merge of the thickness, then calculate_panels
calculate_panels_endpoint ==
  /\ calc.op = "cabinet"
  /\ ~calc.done
  /\ calc' = [calc EXCEPT
                !.panels = calculate_panels(
                             calc.cabinet_type, calc.width_mm, calc.height_mm,
                             calc.depth_mm,
                             OrChain(calc.thickness_mm,
                                     calc.factory_thickness_mm,
                                     DEFAULT_THICKNESS_MM),
                             calc.shelf_count),
                !.done = TRUE]
  /\ UNCHANGED pipelineVars

SpecCabinet == CabinetInit /\ [][calculate_panels_endpoint]_vars

\* C21: every face-side drilling point of a calculated panel has a depth
\* that does not exceed the thickness of the panel.
FaceHoleWithinThickness ==
  (calc.op = "cabinet" /\ calc.done)
    => \A pn \in calc.panels : \A h \in pn.drilling_points :
         h.side = "face" => h.depth <= pn.thickness_mm

(* ------------------- per-panel drilling program (NC) -------------------- *)
MaxHoles == 3      \* holes of one panel

\* DrillHole: coordinates and depth in whole millimetres, which the formats
\* ".3f" print exactly; side is "face" or "edge"
DrillHoles ==
  [x : {37}, y : {116, 148}, diameter : {5, 8}, depth : {12},
   side : {"face", "edge"}]

\* sorted(holes_by_tool.items()): keys (diameter, side) in ascending order,
\* the sides compared as the strings they are
KeyBefore(a, b) ==
  \/ a[1] < b[1]
  \/ a[1] = b[1] /\ a[2] = "edge" /\ b[2] = "face"

RECURSIVE SortedKeys(_)
SortedKeys(keys) ==
  IF keys = {}
  THEN <<>>
  ELSE LET first == CHOOSE k \in keys : \A o \in keys \ {k} : KeyBefore(k, o)
       IN <<first>> \o SortedKeys(keys \ {first})

\* holes_by_tool[key]: the holes of a key in the order of panel.holes
HolesByTool(holes, key) ==
  SelectSeq(holes, LAMBDA h : <<h.diameter, h.side>> = key)

\* a loop over every hole of the group, the first one included
AfterFirstAll(holes) == holes

\* holes[1:]
AfterFirst(holes) == Tail(holes)

\* the lines of one group: comment, tool change, spindle on, dwell, the
\* first hole with the cycle, the other holes as coordinates, G80, blank
GroupLines(tool_number, key, holes) ==
  <<[op |-> "comment", text |-> key],
    [op |-> "M06", tool |-> tool_number, diameter |-> key[1]],
    [op |-> "M03"],
    [op |-> "G04"],
    [op |-> "G00", x |-> holes[1].x, y |-> holes[1].y],
    [op |-> "G99"],
    [op |-> "G81", depth |-> holes[1].depth]>>
  \o [i \in 1..Len(AfterFirst(holes)) |->
        [op |-> "XY", x |-> AfterFirst(holes)[i].x, y |-> AfterFirst(holes)[i].y]]
  \o <<[op |-> "G80"], [op |-> "blank"]>>

RECURSIVE AllGroupLines(_, _, _)
AllGroupLines(holes, keys, tool_number) ==
  IF keys = <<>>
  THEN <<>>
  ELSE GroupLines(tool_number, Head(keys), HolesByTool(holes, Head(keys)))
         \o AllGroupLines(holes, Tail(keys), tool_number + 1)

\* the groove of the back panel: its own tool change, then four lines a slot
SlotLines(slots, tool_number) ==
  IF slots = 0
  THEN <<>>
  ELSE <<[op |-> "comment", text |-> <<4, "PAZ">>],
         [op |-> "M06", tool |-> tool_number, diameter |-> 4],
         [op |-> "M03"], [op |-> "G04"],
         [op |-> "G00s"], [op |-> "G01z"], [op |-> "G01"], [op |-> "G00z"],
         [op |-> "blank"]>>

\* generate_panel_gcode(panel, profile_name): header, groups, slots, footer
generate_panel_gcode(holes, slots) ==
  LET keys == SortedKeys({<<holes[i].diameter, holes[i].side>> :
                            i \in 1..Len(holes)})
  IN <<[op |-> "program_start"], [op |-> "comment", text |-> <<0, "panel">>],
       [op |-> "blank"]>>
       \o AllGroupLines(holes, keys, 1)
       \o SlotLines(slots, Len(keys) + 1)
       \o <<[op |-> "program_end"]>>

DrillingInputs ==
  [op : {"drilling"},
   holes : UNION {[1..n -> DrillHoles] : n \in 0..MaxHoles},
   slots : {0, 1}, program : {<<>>}, done : {FALSE}]

DrillingInit == PipelineIdle /\ calc \in DrillingInputs

call_generate_panel_gcode ==
  /\ calc.op = "drilling"
  /\ ~calc.done
  /\ calc' = [calc EXCEPT !.program = generate_panel_gcode(calc.holes, calc.slots),
                          !.done = TRUE]
  /\ UNCHANGED pipelineVars

SpecDrilling == DrillingInit /\ [][call_generate_panel_gcode]_vars

\* the (diameter, side) groups of the holes of the panel
HoleGroups ==
  {<<calc.holes[i].diameter, calc.holes[i].side>> : i \in 1..Len(calc.holes)}

\* the lines that close a drilling cycle, and the lines of the block a
\* closing line ends: those after the previous closing line
CycleEnds == {i \in 1..Len(calc.program) : calc.program[i].op = "G80"}
BlockOf(e) == {i \in 1..e : \A g \in CycleEnds : g < e => g < i}
BlockLines(e, op) == {i \in BlockOf(e) : calc.program[i].op = op}

\* C27: the program has one block per (diameter, side) group; a block has
\* exactly one tool change, one spindle-on and one dwell, then the first
\* hole of the group with full coordinates and the cycle, then every other
\* hole of the group once, in order, as a coordinate-only line, then G80.
OneBlockPerGroup ==
  (calc.op = "drilling" /\ calc.done)
    => /\ Cardinality(CycleEnds) = Cardinality(HoleGroups)
       /\ \A key \in HoleGroups :
            Cardinality({e \in CycleEnds :
                           \E i \in BlockLines(e, "comment") :
                             calc.program[i].text = key}) = 1
       /\ \A e \in CycleEnds :
            \E c \in BlockLines(e, "comment") :
              LET P == calc.program
                  hs == SelectSeq(calc.holes,
                          LAMBDA h : <<h.diameter, h.side>> = P[c].text)
              IN /\ P[c].text \in HoleGroups
                 /\ BlockLines(e, "M06") = {c + 1}
                 /\ BlockLines(e, "M03") = {c + 2}
                 /\ BlockLines(e, "G04") = {c + 3}
                 /\ BlockLines(e, "G00") = {c + 4}
                 /\ P[c + 4].x = hs[1].x /\ P[c + 4].y = hs[1].y
                 /\ BlockLines(e, "G81") = {c + 6}
                 /\ BlockLines(e, "XY") = (c + 7)..(e - 1)
                 /\ e - c - 7 = Len(hs) - 1
                 /\ \A k \in 2..Len(hs) :
                      /\ P[c + 5 + k].x = hs[k].x
                      /\ P[c + 5 + k].y = hs[k].y

\* a panel with two groups, one of them with two holes, and a groove
TwoGroupsAndSlot ==
  /\ calc.op = "drilling"
  /\ calc.done
  /\ Cardinality(HoleGroups) = 2
  /\ Len(calc.holes) = 3
  /\ calc.slots = 1

(* -------------------- magic-link login: POST /verify -------------------- *)
MaxRequests == 3   \* verify requests in flight

Requests == 1..MaxRequests

\* the token of the one MagicToken row, and a value that is no row's token
IssuedToken == 1
Tokens == {IssuedToken, 2}

\* state of the login tables and of the requests: the row's used flag,
\* whether expires_at has passed, user.is_active, and for every request its
\* token and how far its handler has run
VerifyInputs ==
  [op : {"verify"}, used : {FALSE}, expired : {FALSE}, is_active : BOOLEAN,
   token : [Requests -> Tokens], at : {[r \in Requests |-> "select"]}]

VerifyInit == PipelineIdle /\ calc \in VerifyInputs

\* the WHERE clause of the select: token, used == False, expires_at > now
RowFound(token) == token = IssuedToken /\ ~calc.used /\ ~calc.expired

\* await db.execute(select(MagicToken)...): 400 when no row is returned
verify_select(r) ==
  /\ calc.op = "verify"
  /\ calc.at[r] = "select"
  /\ calc' = [calc EXCEPT !.at[r] = IF RowFound(calc.token[r])
                                    THEN "found" ELSE "400"]
  /\ UNCHANGED pipelineVars

\* the rest of the handler: 403 for a deactivated user, else used = True,
\* commit (an UPDATE by primary key, which succeeds whatever the row holds)
\* and the JWT in the response
verify_commit(r) ==
  /\ calc.op = "verify"
  /\ calc.at[r] = "found"
  /\ calc' = IF calc.is_active
             THEN [calc EXCEPT !.used = TRUE, !.at[r] = "200"]
             ELSE [calc EXCEPT !.at[r] = "403"]
  /\ UNCHANGED pipelineVars

\* time passes beyond expires_at
verify_expire ==
  /\ calc.op = "verify"
  /\ ~calc.expired
  /\ calc' = [calc EXCEPT !.expired = TRUE]
  /\ UNCHANGED pipelineVars

NextVerify ==
  \/ \E r \in Requests : verify_select(r)
  \/ \E r \in Requests : verify_commit(r)
  \/ verify_expire

SpecVerify == VerifyInit /\ [][NextVerify]_vars

\* C28: of the verify requests that carry the same token at most one is
\* answered with a JWT.
TokenExchangedOnce ==
  calc.op = "verify"
    => Cardinality({r \in Requests : calc.at[r] = "200"}) <= 1

(* ----------------------- artifact of a completed job -------------------- *)
\* C29: a job of kind DXF, GCODE or ZIP that is Completed has an artifact,
\* and the artifact was attached before the status became Completed.
ArtifactBeforeCompleted ==
  [][\A j \in Rows :
       (/\ cam_jobs[j].job_kind \in {"DXF", "GCODE", "ZIP"}
        /\ cam_jobs'[j].status = "Completed")
         => /\ cam_jobs'[j].artifact_id \in 1..Len(artifacts')
            /\ cam_jobs[j].status # "Completed"
                 => cam_jobs[j].artifact_id \in 1..Len(artifacts)]_vars

(* --------------------------- attempt counter ---------------------------- *)
\* C30: the attempt counter of a job never decreases and never exceeds
\* MAX_RETRIES, however the failure handlers of its workers interleave.
AttemptMonotoneAndBounded ==
  [][\A j \in Rows :
       /\ cam_jobs'[j].attempt >= cam_jobs[j].attempt
       /\ cam_jobs'[j].attempt <= MAX_RETRIES]_vars
====
